---- MODULE Spec2Model ----
(***************************************************************************)
(* Model of src/app.py: the number-theoretic core of the modular           *)
(* arithmetic clock (modular operations, Euclid, primality, Caesar and     *)
(* Vigenere ciphers, RSA key generation, Chinese Remainder Theorem).       *)
(*                                                                         *)
(* The library is stateless: a caller invokes one function, the function   *)
(* runs to completion and returns a value or raises.  The state machine    *)
(* is one pending call: pc says where the call is, call holds its          *)
(* arguments, ret its outcome, frame the locals of generate_rsa_keys,      *)
(* which is modelled statement by statement because it holds the only      *)
(* loop whose termination is not evident from its variant.                 *)
(*                                                                         *)
(* Python integers are unbounded; every run below keeps all intermediate   *)
(* values far inside TLC's 32-bit range.  Text is a sequence of code       *)
(* points.                                                                 *)
(***************************************************************************)
EXTENDS Integers, Sequences, FiniteSets

VARIABLES pc, call, ret, frame

vars == <<pc, call, ret, frame>>

(***************************************************************************)
(* Bounds of the model.                                                    *)
(***************************************************************************)
MaxInt == 5
MaxMod == 7
MaxExp == 5
MaxP == 13
MaxProbes == 4
MaxShift == 27
MaxText == 3
MaxKey == 2
MaxLen == 3
MaxRem == 3

Ints == (-MaxInt)..MaxInt
Mods == 0..MaxMod
PositiveMods == 1..MaxMod
Exps == 0..MaxExp
SmallInputs == 0..MaxP
\* Two primes whose phi lies on either side of the 65537 seed:
\* 256*256 = 65536 <= 65537 < 67072 = 256*262.
LargePrimes == {257, 263}
KeyGenInputs == SmallInputs \cup LargePrimes
Shifts == (-MaxShift)..MaxShift
\* ' ', 'A', 'Z', '[', 'b': letters at both ends of the ring, the code point
\* right after 'Z', a lower-case letter and a non-letter.
Alphabet == {32, 65, 90, 91, 98}
SeqsUpTo(S, n) == UNION {[1..k -> S] : k \in 0..n}
Texts == SeqsUpTo(Alphabet, MaxText)
Keys == SeqsUpTo(Alphabet, MaxKey)
Rems == 0..MaxRem
SignedRems == (-MaxRem)..MaxRem

(***************************************************************************)
(* Outcomes: a returned value or a raised exception.                       *)
(***************************************************************************)
Ok(v) == [exc |-> "none", val |-> v]
Raise(x, msg) == [exc |-> x, val |-> msg]
NoInverseMsg == "Modular inverse does not exist"
LengthMsg == "Remainders and moduli must have same length"
NotPrimeMsg == "Both p and q must be prime"
DivZero == Raise("ZeroDivisionError", "integer division or modulo by zero")

(***************************************************************************)
(* Python's % and // (floor semantics, sign of the divisor), for b # 0.    *)
(***************************************************************************)
PyMod(a, b) == IF b > 0 THEN a % b ELSE -((-a) % (-b))
PyDiv(a, b) == IF b > 0 THEN a \div b ELSE (-a) \div (-b)

(***************************************************************************)
(* Modular arithmetic.                                                     *)
(***************************************************************************)
mod_add(a, b, m) ==
    IF m = 0 THEN DivZero ELSE Ok(PyMod(PyMod(a + b, m) + m, m))

mod_subtract(a, b, m) ==
    IF m = 0 THEN DivZero ELSE Ok(PyMod(PyMod(a - b, m) + m, m))

mod_multiply(a, b, m) ==
    IF m = 0 THEN DivZero ELSE Ok(PyMod(PyMod(a * b, m) + m, m))

\* Mutant: the base is never squared.
RECURSIVE mod_power_loop_no_square(_, _, _, _)
mod_power_loop_no_square(result, base, exp, m) ==
    IF exp > 0
    THEN mod_power_loop_no_square(
             IF exp % 2 = 1 THEN PyMod(result * base, m) ELSE result,
             base, exp \div 2, m)
    ELSE result

\* The while loop of mod_power.
RECURSIVE mod_power_loop(_, _, _, _)
mod_power_loop(result, base, exp, m) ==
    IF exp > 0
    THEN mod_power_loop(IF exp % 2 = 1 THEN PyMod(result * base, m) ELSE result,
                        PyMod(base * base, m), exp \div 2, m)
    ELSE result

mod_power_init == 1

mod_power(base, exp, m) ==
    IF m = 0 THEN DivZero
    ELSE Ok(mod_power_loop(mod_power_init, PyMod(base, m), exp, m))

(***************************************************************************)
(* Number theory.                                                          *)
(***************************************************************************)
RECURSIVE gcd(_, _)
gcd(a, b) == IF b # 0 THEN gcd(b, PyMod(a, b)) ELSE a

\* Mutant: the quotient a // b is left out of y.
back_substitute_no_quotient(a, b, r) == <<r[1], r[3], r[2] - r[3]>>

\* x = y1, y = x1 - (a // b) * y1 from the subproblem's (gcd_val, x1, y1)
back_substitute(a, b, r) == <<r[1], r[3], r[2] - PyDiv(a, b) * r[3]>>

\* The recursive call is bound through a singleton set so that its value is
\* computed once, as the single call of the code is.
RECURSIVE extended_gcd(_, _)
extended_gcd(a, b) ==
    IF b = 0 THEN <<a, 1, 0>>
    ELSE CHOOSE t \in {back_substitute(a, b, r) : r \in {extended_gcd(b, PyMod(a, b))}} :
             TRUE

mod_inverse(a, m) ==
    LET r == extended_gcd(a, m)
    IN IF r[1] # 1 THEN Raise("ValueError", NoInverseMsg)
       ELSE IF m = 0 THEN DivZero
       ELSE Ok(PyMod(PyMod(r[2], m) + m, m))

\* int(math.sqrt(n)) for n >= 0
isqrt(n) == CHOOSE k \in 0..n : k * k <= n /\ (k + 1) * (k + 1) > n

is_prime(n) ==
    IF n < 2 THEN FALSE
    ELSE IF n = 2 THEN TRUE
    ELSE IF n % 2 = 0 THEN FALSE
    ELSE \A i \in 3..isqrt(n) : (i - 3) % 2 = 0 => n % i # 0

(***************************************************************************)
(* Ciphers.  str.upper() on the modelled code points; ord/chr are the      *)
(* identity on code points.                                                *)
(***************************************************************************)
upper_char(c) == IF 97 <= c /\ c <= 122 THEN c - 32 ELSE c
upper(text) == [i \in 1..Len(text) |-> upper_char(text[i])]
is_letter(c) == 65 <= c /\ c <= 90

caesar_shift(shift, decrypt) ==
    IF decrypt THEN PyMod(26 - shift, 26) ELSE PyMod(shift, 26)

caesar_char(char, s) ==
    IF is_letter(char) THEN PyMod(char - 65 + s, 26) + 65 ELSE char

caesar_cipher(text, shift, decrypt) ==
    LET s == caesar_shift(shift, decrypt)
        t == upper(text)
    IN Ok([i \in 1..Len(t) |-> caesar_char(t[i], s)])

\* Mutant: the shift is not negated when decrypting.
vigenere_shift_no_negate(key_upper, key_index, decrypt) ==
    key_upper[PyMod(key_index, Len(key_upper)) + 1] - 65

vigenere_shift(key_upper, key_index, decrypt) ==
    LET shift == key_upper[PyMod(key_index, Len(key_upper)) + 1] - 65
    IN IF decrypt THEN -shift ELSE shift

vigenere_char(char, shift) ==
    PyMod(PyMod(char - 65 + shift, 26) + 26, 26) + 65

\* The for loop of vigenere_cipher from position i on; key_index % len(key_upper)
\* raises ZeroDivisionError when a letter meets an empty key.
RECURSIVE vigenere_loop(_, _, _, _, _, _)
vigenere_loop(t, key_upper, decrypt, i, key_index, result) ==
    IF i > Len(t) THEN Ok(result)
    ELSE IF is_letter(t[i])
    THEN IF Len(key_upper) = 0 THEN DivZero
         ELSE vigenere_loop(t, key_upper, decrypt, i + 1, key_index + 1,
                  Append(result,
                         vigenere_char(t[i], vigenere_shift(key_upper, key_index, decrypt))))
    ELSE vigenere_loop(t, key_upper, decrypt, i + 1, key_index, Append(result, t[i]))

vigenere_cipher(text, key, decrypt) ==
    vigenere_loop(upper(text), upper(key), decrypt, 1, 0, <<>>)

(***************************************************************************)
(* RSA.  generate_rsa_keys is the statement-level actions below; these are *)
(* its pieces and the two one-line wrappers.                               *)
(***************************************************************************)
SeedE == 65537
FallbackE == 3

seed_e(phi) == IF SeedE >= phi THEN FallbackE ELSE SeedE

\* Mutant: the sum is computed and dropped (e + 2 for e += 2).
next_e_dropped(e) == e

next_e(e) == e + 2

rsa_encrypt(message, e, n) == mod_power(message, e, n)
rsa_decrypt(ciphertext, d, n) == mod_power(ciphertext, d, n)

(***************************************************************************)
(* Chinese Remainder Theorem.                                              *)
(***************************************************************************)
RECURSIVE product(_, _)
product(moduli, k) == IF k = 0 THEN 1 ELSE product(moduli, k - 1) * moduli[k]

\* Mutant: the inverse yi is left out of the term.
crt_term_no_inverse(r, Mi, yi) == r * Mi

\* remainders[i] * Mi * yi
crt_term(r, Mi, yi) == r * Mi * yi

\* The second for loop from index i on (1-based), x the running sum.
RECURSIVE crt_loop(_, _, _, _, _)
crt_loop(remainders, moduli, M, i, x) ==
    IF i > Len(moduli)
    THEN IF M = 0 THEN DivZero ELSE Ok(PyMod(x, M))
    ELSE IF moduli[i] = 0 THEN DivZero
    ELSE LET Mi == PyDiv(M, moduli[i])
             yi == mod_inverse(Mi, moduli[i])
         IN IF yi.exc # "none" THEN yi
            ELSE crt_loop(remainders, moduli, M, i + 1,
                          x + crt_term(remainders[i], Mi, yi.val))

chinese_remainder_theorem(remainders, moduli) ==
    IF Len(remainders) # Len(moduli) THEN Raise("ValueError", LengthMsg)
    ELSE crt_loop(remainders, moduli, product(moduli, Len(moduli)), 1, 0)

(***************************************************************************)
(* One pending call.                                                       *)
(***************************************************************************)
NoCall == [op |-> "none"]
NoRet == [exc |-> "pending", val |-> 0]
NoFrame == [n |-> 0, phi |-> 0, e |-> 0]

Init ==
    /\ pc = "idle"
    /\ call = NoCall
    /\ ret = NoRet
    /\ frame = NoFrame

Finish(c, r) ==
    /\ pc' = "returned"
    /\ call' = c
    /\ ret' = r
    /\ UNCHANGED frame

CallModAdd ==
    /\ pc = "idle"
    /\ \E a \in Ints, b \in Ints, m \in Mods :
           Finish([op |-> "mod_add", a |-> a, b |-> b, m |-> m], mod_add(a, b, m))

CallModSubtract ==
    /\ pc = "idle"
    /\ \E a \in Ints, b \in Ints, m \in Mods :
           Finish([op |-> "mod_subtract", a |-> a, b |-> b, m |-> m], mod_subtract(a, b, m))

CallModMultiply ==
    /\ pc = "idle"
    /\ \E a \in Ints, b \in Ints, m \in Mods :
           Finish([op |-> "mod_multiply", a |-> a, b |-> b, m |-> m], mod_multiply(a, b, m))

CallModPower ==
    /\ pc = "idle"
    /\ \E base \in Ints, exp \in Exps, m \in Mods :
           Finish([op |-> "mod_power", a |-> base, b |-> exp, m |-> m],
                  mod_power(base, exp, m))

CallModInverse ==
    /\ pc = "idle"
    /\ \E a \in Ints, m \in Mods :
           Finish([op |-> "mod_inverse", a |-> a, m |-> m], mod_inverse(a, m))

CallCaesar ==
    /\ pc = "idle"
    /\ \E text \in Texts, shift \in Shifts, decrypt \in BOOLEAN :
           Finish([op |-> "caesar_cipher", text |-> text, shift |-> shift,
                   decrypt |-> decrypt],
                  caesar_cipher(text, shift, decrypt))

CallVigenere ==
    /\ pc = "idle"
    /\ \E text \in Texts, key \in Keys, decrypt \in BOOLEAN :
           Finish([op |-> "vigenere_cipher", text |-> text, key |-> key,
                   decrypt |-> decrypt],
                  vigenere_cipher(text, key, decrypt))

CallRsaEncrypt ==
    /\ pc = "idle"
    /\ \E message \in Ints, e \in Exps, n \in Mods :
           Finish([op |-> "rsa_encrypt", a |-> message, b |-> e, m |-> n],
                  rsa_encrypt(message, e, n))

CallRsaDecrypt ==
    /\ pc = "idle"
    /\ \E ciphertext \in Ints, d \in Exps, n \in Mods :
           Finish([op |-> "rsa_decrypt", a |-> ciphertext, b |-> d, m |-> n],
                  rsa_decrypt(ciphertext, d, n))

(***************************************************************************)
(* generate_rsa_keys(p, q), statement by statement.                        *)
(***************************************************************************)
GenCall(S) ==
    /\ pc = "idle"
    /\ \E p \in S, q \in S :
           call' = [op |-> "generate_rsa_keys", p |-> p, q |-> q]
    /\ pc' = "check_primes"
    /\ UNCHANGED <<ret, frame>>

\* if not is_prime(p) or not is_prime(q): raise; else n, phi and the seed of e
GenCheckPrimes ==
    /\ pc = "check_primes"
    /\ IF ~is_prime(call.p) \/ ~is_prime(call.q)
       THEN /\ ret' = Raise("ValueError", NotPrimeMsg)
            /\ pc' = "returned"
            /\ UNCHANGED frame
       ELSE LET phi == (call.p - 1) * (call.q - 1)
            IN /\ frame' = [n |-> call.p * call.q, phi |-> phi, e |-> seed_e(phi)]
               /\ pc' = "search"
               /\ UNCHANGED ret
    /\ UNCHANGED call

\* one turn of: while gcd(e, phi) != 1: e += 2
GenProbe ==
    /\ pc = "search"
    /\ gcd(frame.e, frame.phi) # 1
    /\ frame.e - seed_e(frame.phi) < 2 * MaxProbes
    /\ frame' = [frame EXCEPT !.e = next_e(frame.e)]
    /\ UNCHANGED <<pc, call, ret>>

\* d = mod_inverse(e, phi) and the returned dictionary; a ValueError of
\* mod_inverse propagates.
key_pair(n, phi, e) ==
    LET d == mod_inverse(e, phi)
    IN IF d.exc # "none" THEN d
       ELSE Ok([n |-> n, e |-> e, d |-> d.val, phi |-> phi])

\* loop exit, d = mod_inverse(e, phi), return of the key pair
GenInverse ==
    /\ pc = "search"
    /\ gcd(frame.e, frame.phi) = 1
    /\ ret' = key_pair(frame.n, frame.phi, frame.e)
    /\ pc' = "returned"
    /\ UNCHANGED <<call, frame>>

CallCRT(Rs, Ms, n) ==
    /\ pc = "idle"
    /\ \E k \in 0..n :
           \E remainders \in [1..k -> Rs], moduli \in [1..k -> Ms] :
               Finish([op |-> "chinese_remainder_theorem", remainders |-> remainders,
                       moduli |-> moduli],
                      chinese_remainder_theorem(remainders, moduli))

CallCRTMismatch ==
    /\ pc = "idle"
    /\ \E k \in 0..MaxLen, l \in 0..MaxLen :
           /\ k # l
           /\ \E r \in Rems, m \in Mods :
               Finish([op |-> "chinese_remainder_theorem",
                       remainders |-> [i \in 1..k |-> r], moduli |-> [i \in 1..l |-> m]],
                      chinese_remainder_theorem([i \in 1..k |-> r], [i \in 1..l |-> m]))

Return ==
    /\ pc = "returned"
    /\ pc' = "idle"
    /\ call' = NoCall
    /\ ret' = NoRet
    /\ frame' = NoFrame

Next ==
    \/ CallModAdd
    \/ CallModSubtract
    \/ CallModMultiply
    \/ CallModPower
    \/ CallModInverse
    \/ CallCaesar
    \/ CallVigenere
    \/ CallRsaEncrypt
    \/ CallRsaDecrypt
    \/ GenCall(SmallInputs)
    \/ GenCheckPrimes
    \/ GenProbe
    \/ GenInverse
    \/ Return

Spec == Init /\ [][Next]_vars

\* Calls of chinese_remainder_theorem alone, zero moduli included.
NextCRT ==
    \/ CallCRT(Rems, Mods, MaxLen)
    \/ CallCRTMismatch
    \/ Return

SpecCRT == Init /\ [][NextCRT]_vars

\* Calls of chinese_remainder_theorem on systems with positive moduli:
\* natural remainders up to the full length, negative ones too in systems
\* one shorter.
NextCRTPositive ==
    \/ CallCRT(Rems, PositiveMods, MaxLen)
    \/ CallCRT(SignedRems, PositiveMods, MaxLen - 1)
    \/ Return

SpecCRTPositive == Init /\ [][NextCRTPositive]_vars

\* Calls of generate_rsa_keys alone, the large primes included.  A started
\* call keeps taking steps (the function runs to completion on the calling
\* thread); nothing obliges a caller to call or to pick up the result.
NextKeyGen ==
    \/ GenCall(KeyGenInputs)
    \/ GenCheckPrimes
    \/ GenProbe
    \/ GenInverse
    \/ Return

\* The steps of a started call.
GenRun == GenCheckPrimes \/ GenProbe \/ GenInverse

SpecKeyGen == Init /\ [][NextKeyGen]_vars /\ WF_vars(GenRun)

(***************************************************************************)
(* Mathematical reference notions used to state the properties.            *)
(***************************************************************************)
Abs(x) == IF x < 0 THEN -x ELSE x
Divides(d, x) == x % d = 0
\* greatest common divisor of a and b, not both zero
GCD(a, b) ==
    CHOOSE g \in 1..(Abs(a) + Abs(b)) :
        /\ Divides(g, a) /\ Divides(g, b)
        /\ \A h \in 1..(Abs(a) + Abs(b)) : Divides(h, a) /\ Divides(h, b) => h <= g
IsPrime(x) == x > 1 /\ \A d \in 2..(x - 1) : x % d # 0
RECURSIVE Pow(_, _)
Pow(b, k) == IF k = 0 THEN 1 ELSE b * Pow(b, k - 1)

Returned(op) == pc = "returned" /\ call.op = op
Succeeded == ret.exc = "none"

(***************************************************************************)
(* C1.  RSA round trip.                                                    *)
(***************************************************************************)
RoundTrip(m, k) ==
    LET c == rsa_encrypt(m, k.e, k.n)
    IN c.exc = "none" /\ rsa_decrypt(c.val, k.d, k.n) = Ok(m)

\* C1 as stated: for every (p, q) for which generate_rsa_keys succeeds, p = q
\* included, every message 0 <= m < n decrypts back to itself.
C1_RoundTripAnyPair ==
    Returned("generate_rsa_keys") /\ Succeeded =>
        \A m \in 0..(ret.val.n - 1) : RoundTrip(m, ret.val)

\* C1 amended: for every pair of DISTINCT p, q for which generate_rsa_keys
\* succeeds and every message 0 <= m < n,
\* rsa_decrypt(rsa_encrypt(m, e, n), d, n) = m.
C1_RoundTripDistinct ==
    Returned("generate_rsa_keys") /\ Succeeded /\ call.p # call.q =>
        \A m \in 0..(ret.val.n - 1) : RoundTrip(m, ret.val)

\* A key pair from distinct primes, found after the search moved e off its
\* seed, under which some message is really changed by encryption.
C1_Witness ==
    /\ Returned("generate_rsa_keys") /\ Succeeded /\ call.p # call.q
    /\ ret.val.e > FallbackE
    /\ \E m \in 0..(ret.val.n - 1) :
           rsa_encrypt(m, ret.val.e, ret.val.n) # Ok(m) /\ RoundTrip(m, ret.val)

(***************************************************************************)
(* C2.  RSA key-pair invariant.                                            *)
(***************************************************************************)
\* C2: for distinct primes p, q the returned pair has n = p*q,
\* phi = (p-1)*(q-1), 1 < e < phi, gcd(e, phi) = 1 and (e*d) mod phi = 1.
C2_KeyPairInvariant ==
    Returned("generate_rsa_keys") /\ IsPrime(call.p) /\ IsPrime(call.q)
                                  /\ call.p # call.q =>
        /\ Succeeded
        /\ ret.val.n = call.p * call.q
        /\ ret.val.phi = (call.p - 1) * (call.q - 1)
        /\ 1 < ret.val.e /\ ret.val.e < ret.val.phi
        /\ GCD(ret.val.e, ret.val.phi) = 1
        /\ (ret.val.e * ret.val.d) % ret.val.phi = 1

(***************************************************************************)
(* C3.  Range of the modular operations.                                   *)
(***************************************************************************)
\* C3: for m > 0 (and exp >= 0) mod_add, mod_subtract, mod_multiply and
\* mod_power return a value r with 0 <= r < m.
C3_RangeInvariant ==
    /\ pc = "returned"
    /\ call.op \in {"mod_add", "mod_subtract", "mod_multiply", "mod_power"}
    /\ call.m > 0
    => Succeeded /\ 0 <= ret.val /\ ret.val < call.m

(***************************************************************************)
(* C4.  Correctness of mod_inverse.                                        *)
(***************************************************************************)
\* C4 as stated: for m > 0 and gcd(a, m) = 1, mod_inverse(a, m) returns x in
\* [0, m) with mod_multiply(a, x, m) = 1.
C4_InverseProductIsOne ==
    Returned("mod_inverse") /\ call.m > 0 /\ GCD(call.a, call.m) = 1 =>
        /\ Succeeded
        /\ 0 <= ret.val /\ ret.val < call.m
        /\ mod_multiply(call.a, ret.val, call.m) = Ok(1)

\* C4 amended: for m > 0 and gcd(a, m) = 1, mod_inverse(a, m) returns x in
\* [0, m) with mod_multiply(a, x, m) = 1 mod m (that is 1 for m > 1, 0 for
\* m = 1).
C4_InverseProductIsOneModM ==
    Returned("mod_inverse") /\ call.m > 0 /\ GCD(call.a, call.m) = 1 =>
        /\ Succeeded
        /\ 0 <= ret.val /\ ret.val < call.m
        /\ mod_multiply(call.a, ret.val, call.m) = Ok(1 % call.m)

\* The inverse of a negative number that is not its own inverse.
C4_Witness ==
    /\ Returned("mod_inverse") /\ Succeeded
    /\ call.m > 2 /\ call.a < -1 /\ GCD(call.a, call.m) = 1
    /\ ret.val > 1
    /\ ret.val # call.a % call.m

(***************************************************************************)
(* C5.  Correctness of chinese_remainder_theorem.                          *)
(***************************************************************************)
\* for a, b > 0
Coprime(a, b) == \A d \in 2..a : ~(Divides(d, a) /\ Divides(d, b))
PairwiseCoprime(ms) ==
    \A i \in 1..Len(ms), j \in 1..Len(ms) : i < j => Coprime(ms[i], ms[j])
RECURSIVE Product(_)
Product(ms) == IF ms = <<>> THEN 1 ELSE Head(ms) * Product(Tail(ms))

\* C5: for equal-length lists with positive, pairwise coprime moduli the call
\* returns x with 0 <= x < M, M the product of the moduli, and
\* x mod moduli[i] = remainders[i] mod moduli[i] for every i; and
\* ([2,3,2], [3,5,7]) gives 23.
C5_CRTCorrect ==
    Returned("chinese_remainder_theorem")
        /\ Len(call.remainders) = Len(call.moduli)
        /\ (\A i \in 1..Len(call.moduli) : call.moduli[i] > 0)
        /\ PairwiseCoprime(call.moduli) =>
    /\ Succeeded
    /\ 0 <= ret.val /\ ret.val < Product(call.moduli)
    /\ \A i \in 1..Len(call.moduli) :
           ret.val % call.moduli[i] = call.remainders[i] % call.moduli[i]
    /\ (call.remainders = <<2, 3, 2>> /\ call.moduli = <<3, 5, 7>> => ret.val = 23)

\* The textbook system has been solved.
C5_Witness ==
    /\ Returned("chinese_remainder_theorem")
    /\ call.remainders = <<2, 3, 2>> /\ call.moduli = <<3, 5, 7>>
    /\ ret = Ok(23)

(***************************************************************************)
(* C6.  Cipher round trips.                                                *)
(***************************************************************************)
NonLettersKept(text, out) ==
    /\ Len(out) = Len(text)
    /\ \A i \in 1..Len(text) :
           IF is_letter(upper(text)[i]) THEN is_letter(out[i])
           ELSE out[i] = text[i]

\* C6: decrypting what caesar_cipher (any shift) or vigenere_cipher (any
\* non-empty key) encrypted gives the upper-cased text, and the ciphertext
\* has the text's non-letters unchanged at their positions.
C6_CipherRoundTrip ==
    /\ Returned("caesar_cipher") /\ ~call.decrypt =>
           /\ Succeeded
           /\ NonLettersKept(call.text, ret.val)
           /\ caesar_cipher(ret.val, call.shift, TRUE) = Ok(upper(call.text))
    /\ Returned("vigenere_cipher") /\ ~call.decrypt /\ Len(call.key) > 0 =>
           /\ Succeeded
           /\ NonLettersKept(call.text, ret.val)
           /\ vigenere_cipher(ret.val, call.key, TRUE) = Ok(upper(call.text))

\* A Vigenere encryption that wraps around its key, passes a non-letter and
\* changes every letter.
C6_Witness ==
    /\ Returned("vigenere_cipher") /\ ~call.decrypt /\ Succeeded
    /\ Len(call.key) > 0
    /\ Cardinality({i \in 1..Len(call.text) : is_letter(upper(call.text)[i])})
           > Len(call.key)
    /\ \E i \in 1..Len(call.text) : ~is_letter(upper(call.text)[i])
    /\ \A i \in 1..Len(call.text) :
           is_letter(upper(call.text)[i]) => ret.val[i] # upper(call.text)[i]
    /\ vigenere_cipher(ret.val, call.key, TRUE) = Ok(upper(call.text))

(***************************************************************************)
(* C7.  Empty Vigenere key.                                                *)
(***************************************************************************)
\* C7: vigenere_cipher fails for every text and either direction when the
\* key is empty; it never returns a text.
C7_EmptyKeyFails ==
    Returned("vigenere_cipher") /\ Len(call.key) = 0 => ~Succeeded

(***************************************************************************)
(* C8.  Zero modulus in chinese_remainder_theorem.                         *)
(***************************************************************************)
\* C8: with equal-length lists and a modulus 0 at any index the call fails
\* with a division-by-zero error, not with the no-inverse ValueError, and
\* returns nothing.
C8_ZeroModulusDivZero ==
    Returned("chinese_remainder_theorem")
        /\ Len(call.remainders) = Len(call.moduli)
        /\ (\E i \in 1..Len(call.moduli) : call.moduli[i] = 0) =>
    ret.exc = "ZeroDivisionError"

(***************************************************************************)
(* C9.  Correctness of mod_power.                                          *)
(***************************************************************************)
\* C9: for exp >= 0 and m > 0, mod_power(base, exp, m) = (base^exp) mod m;
\* in particular mod_power(b, 0, m) = 1 mod m.
C9_PowerCorrect ==
    Returned("mod_power") /\ call.m > 0 =>
        ret = Ok(Pow(call.a, call.b) % call.m)

(***************************************************************************)
(* C10.  generate_rsa_keys completes for prime inputs.                     *)
(***************************************************************************)
\* C10: a call whose p and q both pass is_prime ends by returning a key pair
\* (the search for e stops and mod_inverse(e, phi) does not raise), and a
\* call raises only when p or q does not pass is_prime.
C10_KeyGenCompletes ==
    /\ [](Returned("generate_rsa_keys") /\ ~Succeeded =>
              ~is_prime(call.p) \/ ~is_prime(call.q))
    /\ (pc = "check_primes" /\ is_prime(call.p) /\ is_prime(call.q))
           ~> (Returned("generate_rsa_keys") /\ Succeeded)

\* A key pair returned after the search had to move e off its seed.
C10_Witness ==
    /\ Returned("generate_rsa_keys") /\ Succeeded
    /\ ret.val.e # seed_e(ret.val.phi)
    /\ gcd(ret.val.e, ret.val.phi) = 1

====
